---------------------------- MODULE Spec2Model ----------------------------
(***************************************************************************)
(* Model of src/src/PyUncertainNumber/UP/genetic_optimisation.py:          *)
(* genetic_optimization_method, its nested ProblemWrapper (the objective   *)
(* adapter), ConvergenceMonitor (the callback), run_optimization and       *)
(* handle_arg.                                                             *)
(*                                                                         *)
(* pymoo's minimize() is an external library.  It is modelled by what the  *)
(* driver can observe of it: per generation it hands one batch of          *)
(* candidates to ProblemWrapper._evaluate, keeps a population chosen among *)
(* the old population and the evaluated batch, calls the callback, and     *)
(* stops when the generation budget is used up or force_termination is     *)
(* set.  A candidate x is represented by the user objective's value f(x);  *)
(* objective values are integers, and NaN stands for the float nan.        *)
(*                                                                         *)
(* Specifications: Spec is the call as the code runs it, min then max, on  *)
(* a finite objective that may raise; SpecPar lets the two runs            *)
(* interleave; SpecNonFinite adds an objective that returns nan; SpecNeg   *)
(* puts a max run on f beside a min run on x -> -f(x).                     *)
(***************************************************************************)
EXTENDS Integers, Sequences, FiniteSets, TLC

(* ------------------------------ bounds -------------------------------- *)
MaxGen == 3     \* largest generation budget (n_gen) a call passes
MaxPop == 2     \* largest population size (pop_size) a call passes
MaxVal == 2     \* user objective values range over 0..MaxVal
MaxLen == 3     \* longest ndarray passed for a tunable parameter

Sides == {"min", "max"}
Params == {"pop_size", "n_gen", "tol", "n_gen_last", "algorithm_type"}
Vals == 0..MaxVal
None == "None"

\* SideIndex with both sides reading element 0.
SideIndex_zero(s) == 0

\* Python index of a side in every paired parameter (lines 131 and 136).
SideIndex(s) == IF s = "min" THEN 0 ELSE 1

(* --------------------------- pure helpers ----------------------------- *)
Range(q) == {q[i] : i \in 1..Len(q)}
SetMin(S) == CHOOSE m \in S : \A y \in S : m <= y
SetMax(S) == CHOOSE m \in S : \A y \in S : m >= y

\* The float nan, a value f may return (line 86): an integer no finite
\* value, negation or spread of the model can equal.
NaN == 4 * (MaxVal + 1)

\* Float arithmetic and comparison on values that may be nan: -nan is nan,
\* nan - y and x - nan are nan, and every comparison with nan is False.
Neg(v) == IF v = NaN THEN NaN ELSE 0 - v
Minus(a, b) == IF a = NaN \/ b = NaN THEN NaN ELSE a - b
LessEq(a, b) == a # NaN /\ b # NaN /\ a <= b

\* ndarray.min() / np.min and np.max: nan when any element is nan.
ArrMin(S) == IF NaN \in S THEN NaN ELSE SetMin(S)
ArrMax(S) == IF NaN \in S THEN NaN ELSE SetMax(S)

\* An argument of the call: a scalar (nd = FALSE, elems = <<s>>) or a
\* one-dimensional numpy array (nd = TRUE, elems = its elements).
Scalar(v) == [nd |-> FALSE, elems |-> <<v>>]
NdArray(q) == [nd |-> TRUE, elems |-> q]

\* handle_arg returning its argument unchanged.
handle_arg_identity(arg) == arg

\* handle_arg (lines 120-121): anything that is not an ndarray becomes
\* np.array([arg, arg]); an ndarray of any length is returned unchanged.
handle_arg(arg) ==
    IF ~arg.nd THEN NdArray(<<arg.elems[1], arg.elems[1]>>) ELSE arg

\* arr[i] for a Python index i >= 0: IndexError when i is out of range.
HasIndex(arr, i) == i + 1 <= Len(arr.elems)
Index(arr, i) == arr.elems[i + 1]

\* LastValues slicing from the front: history[:n_last].
LastValues_first(history, n_last) ==
    IF n_last >= Len(history) THEN history ELSE SubSeq(history, 1, n_last)

\* history[-n_last:] (line 104): the last n_last entries; for n_last = 0
\* Python's [-0:] is the whole list.
LastValues(history, n_last) ==
    IF n_last = 0 \/ n_last >= Len(history) THEN history
    ELSE SubSeq(history, Len(history) - n_last + 1, Len(history))

\* np.max(last_values) - np.min(last_values) (line 106).
ConvergenceValue(last_values) ==
    Minus(ArrMax(Range(last_values)), ArrMin(Range(last_values)))

\* ConvergenceMonitor.__init__ (lines 90-96).
NewMonitor(tol, n_last) ==
    [tol |-> tol, n_last |-> n_last, history |-> <<>>, n_generations |-> 0]

\* notify without the generation counter (line 99 left out).
notify_no_count(cb, best) == [cb EXCEPT !.history = Append(@, best)]

\* ConvergenceMonitor.notify, the monitor's own fields (lines 99-100); best
\* is algorithm.pop.get("F").min().
notify(cb, best) ==
    [cb EXCEPT !.n_generations = @ + 1, !.history = Append(@, best)]

\* Converged without the length test of line 103.
Converged_no_guard(cb) ==
    ConvergenceValue(LastValues(cb.history, cb.n_last)) <= cb.tol

\* Converged with the comparison of line 107 made strict.
Converged_strict(cb) ==
    /\ Len(cb.history) >= cb.n_last
    /\ ConvergenceValue(LastValues(cb.history, cb.n_last)) < cb.tol

\* The test of lines 103-107 on the monitor after the append: TRUE when
\* notify sets algorithm.termination.force_termination (line 109).
Converged(cb) ==
    /\ Len(cb.history) >= cb.n_last
    /\ LessEq(ConvergenceValue(LastValues(cb.history, cb.n_last)), cb.tol)

\* OutF without the negation of the maximization side.
OutF_unsigned(objective, res) == res

\* out["F"] of ProblemWrapper._evaluate (line 87) for the batch result res.
OutF(objective, res) ==
    [i \in 1..Len(res) |-> IF objective = "min" THEN res[i] ELSE Neg(res[i])]

\* CountEvals counting calls instead of candidates.
CountEvals_calls(n, x_len) == n + 1

\* self.n_evals += len(x) (line 85).
CountEvals(n, x_len) == n + x_len

\* The algorithm run_optimization constructs (line 115).
SelectAlgorithm(algorithm_type) ==
    IF algorithm_type = "GA" THEN "GA" ELSE "NSGA2"


(* ------------------------------- state -------------------------------- *)
VARIABLES
    given,     \* the five tunable arguments as the caller passed them
    params,    \* the locals pop_size, n_gen, tol, n_gen_last, algorithm_type
    sched,     \* "seq": the sides run as lines 130-137 run them, min then
               \* max; "par": their steps interleave freely
    call,      \* position of genetic_optimization_method
    err,       \* the exception that ended the call, or None
    pc,        \* per side: position of run_optimization / minimize
    cfg,       \* per side: the arguments run_optimization received
    algo,      \* per side: the algorithm object constructed (line 115)
    cb,        \* per side: the ConvergenceMonitor (callback)
    n_evals,   \* per side: ProblemWrapper.n_evals
    force,     \* per side: algorithm.termination.force_termination
    eng_gen,   \* per side: generations the engine has completed
    popF,      \* per side: the F values of the engine's population
    res,       \* per side: f(x) of the batch being evaluated
    outF,      \* per side: out["F"] of the batch being evaluated
    handed,    \* per side: candidates the engine has handed over in all
    script,    \* per side: the engine's choices so far (kept when "par")
    ret,       \* per side: what run_optimization returned
    results    \* the dictionary the call returned; empty before that

vars == <<given, params, sched, call, err, pc, cfg, algo, cb, n_evals, force,
          eng_gen, popF, res, outF, handed, script, ret, results>>

sideVars == <<pc, cfg, algo, cb, n_evals, force, eng_gen, popF, res, outF,
              handed, script, ret>>

(* ------------------------- the calls explored ------------------------- *)
PopSizes == 1..MaxPop
Budgets == 1..MaxGen
Tols == 0..MaxVal
Windows == 1..(MaxGen + 1)
AlgNames == {"GA", "NSGA2", "DE"}

Domain(p) ==
    CASE p = "pop_size" -> PopSizes
      [] p = "n_gen" -> Budgets
      [] p = "tol" -> Tols
      [] p = "n_gen_last" -> Windows
      [] p = "algorithm_type" -> AlgNames

\* The arguments a call explored leaves alone: one candidate per
\* generation, the largest budget, the smallest tolerance, a window of two
\* generations, and the signature's default algorithm (line 16).
BaseArg(p) ==
    CASE p = "pop_size" -> Scalar(1)
      [] p = "n_gen" -> Scalar(MaxGen)
      [] p = "tol" -> Scalar(0)
      [] p = "n_gen_last" -> Scalar(2)
      [] p = "algorithm_type" -> Scalar("NSGA2")

\* The forms one argument takes: a scalar, a pair, or an ndarray of another
\* length (0, 1, 3..MaxLen) with all elements equal.
ArgForms(p) ==
    {Scalar(v) : v \in Domain(p)}
    \cup {NdArray(<<v, w>>) : v \in Domain(p), w \in Domain(p)}
    \cup {NdArray([i \in 1..n |-> v]) :
            n \in (0..MaxLen) \ {2}, v \in Domain(p)}

\* A call with the arguments of `over` and every other argument at its base.
CallWith(over) ==
    [p \in Params |-> IF p \in DOMAIN over THEN over[p] ELSE BaseArg(p)]

\* The calls explored:
\*  - the three monitor parameters range over all scalars;
\*  - one of n_gen, tol, n_gen_last, algorithm_type ranges over all its forms;
\*  - pop_size ranges over all its forms, with a budget of two generations.
Calls ==
    {CallWith([n_gen |-> Scalar(b), tol |-> Scalar(t), n_gen_last |-> Scalar(w)]) :
        b \in Budgets, t \in Tols, w \in Windows}
    \cup UNION {{CallWith([x \in {q} |-> a]) : a \in ArgForms(q)} :
                    q \in Params \ {"pop_size"}}
    \cup {CallWith([pop_size |-> a, n_gen |-> Scalar(2)]) :
            a \in ArgForms("pop_size")}

NoMonitor == NewMonitor(0, 0)
NoCfg ==
    [pop_size |-> 0, n_gen |-> 0, tol |-> 0, n_gen_last |-> 0,
     algorithm_type |-> None]
NoRet == [F |-> 0, n_gen |-> 0, n_iter |-> 0]
NoResults == <<>>

InitRest ==
    /\ params = given
    /\ call = "handle_args"
    /\ err = None
    /\ pc = [s \in Sides |-> "idle"]
    /\ cfg = [s \in Sides |-> NoCfg]
    /\ algo = [s \in Sides |-> None]
    /\ cb = [s \in Sides |-> NoMonitor]
    /\ n_evals = [s \in Sides |-> 0]
    /\ force = [s \in Sides |-> FALSE]
    /\ eng_gen = [s \in Sides |-> 0]
    /\ popF = [s \in Sides |-> {}]
    /\ res = [s \in Sides |-> <<>>]
    /\ outF = [s \in Sides |-> <<>>]
    /\ handed = [s \in Sides |-> 0]
    /\ script = [s \in Sides |-> <<>>]
    /\ ret = [s \in Sides |-> NoRet]
    /\ results = NoResults

Init ==
    /\ given \in Calls
    /\ sched = "seq"
    /\ InitRest

(* ------------------------------ actions ------------------------------- *)
\* Lines 123-127: every argument goes through handle_arg.
HandleArgs ==
    /\ call = "handle_args"
    /\ params' = [p \in Params |-> handle_arg(params[p])]
    /\ call' = "run_min"
    /\ UNCHANGED <<given, sched, err, sideVars, results>>

\* Whether the call has reached the run of side s: line 130 for min, line
\* 135 (after the min run returned) for max.
Reached(s) ==
    IF sched = "seq" THEN call = (IF s = "min" THEN "run_min" ELSE "run_max")
    ELSE call = "run_min"

\* The call position after side s returned (lines 130-137).
AfterReturn(s) ==
    IF sched = "seq" THEN (IF s = "min" THEN "run_max" ELSE "assemble")
    ELSE IF \A o \in Sides \ {s} : pc[o] = "returned" THEN "assemble"
    ELSE call

\* AfterRaise of a driver that catches the exception and carries on.
AfterRaise_swallow(s) ==
    IF s = "min" THEN "run_max" ELSE "assemble"

\* The call position after an exception left run_optimization: no handler
\* surrounds lines 130-137, so the exception ends the call.
AfterRaise(s) == "raised"

\* Lines 130-132 / 135-137 evaluate pop_size[i], n_gen[i], tol[i],
\* n_gen_last[i], algorithm_type[i]; an index out of range raises IndexError
\* and the call ends.
StartSideIndexError(s) ==
    /\ Reached(s)
    /\ pc[s] = "idle"
    /\ \E p \in Params : ~HasIndex(params[p], SideIndex(s))
    /\ pc' = [pc EXCEPT ![s] = "raised"]
    /\ call' = AfterRaise(s)
    /\ err' = "IndexError"
    /\ UNCHANGED <<given, params, sched, cfg, algo, cb, n_evals, force,
                   eng_gen, popF, res, outF, handed, script, ret, results>>

\* The arguments of run_optimization for side s (lines 130-137).
SideArgs(s) == [p \in Params |-> Index(params[p], SideIndex(s))]

\* run_optimization up to the call of minimize (lines 112-116): a fresh
\* monitor, a fresh problem with n_evals = 0, the algorithm chosen by name.
StartSide(s) ==
    /\ Reached(s)
    /\ pc[s] = "idle"
    /\ \A p \in Params : HasIndex(params[p], SideIndex(s))
    /\ cfg' = [cfg EXCEPT ![s] = SideArgs(s)]
    /\ cb' = [cb EXCEPT ![s] = NewMonitor(SideArgs(s).tol, SideArgs(s).n_gen_last)]
    /\ algo' = [algo EXCEPT ![s] = SelectAlgorithm(SideArgs(s).algorithm_type)]
    /\ n_evals' = [n_evals EXCEPT ![s] = 0]
    /\ pc' = [pc EXCEPT ![s] = "eval"]
    /\ UNCHANGED <<given, params, sched, call, err, force, eng_gen, popF, res,
                   outF, handed, script, ret, results>>

\* The batches the engine may hand over: 1..pop_size candidates, each
\* standing for its objective value.
Batches(pop_size) == UNION {[1..k -> Vals] : k \in 1..pop_size}

\* ProblemWrapper._evaluate (lines 85-87) on a batch whose objective values
\* are r: the counter grows by len(x), f is called, out["F"] is r or -r.
Evaluate(s) ==
    /\ pc[s] = "eval"
    /\ \E r \in Batches(cfg[s].pop_size) :
        /\ handed' = [handed EXCEPT ![s] = @ + Len(r)]
        /\ n_evals' = [n_evals EXCEPT ![s] = CountEvals(@, Len(r))]
        /\ res' = [res EXCEPT ![s] = r]
        /\ outF' = [outF EXCEPT ![s] = OutF(s, r)]
    /\ pc' = [pc EXCEPT ![s] = "advance"]
    /\ UNCHANGED <<given, params, sched, call, err, cfg, algo, cb, force,
                   eng_gen, popF, script, ret, results>>

\* ProblemWrapper._evaluate when f raises (line 86): the counter has grown
\* (line 85), the exception leaves minimize, run_optimization and the call.
EvaluateRaises(s) ==
    /\ pc[s] = "eval"
    /\ call # "raised"
    /\ \E k \in 1..cfg[s].pop_size :
        /\ handed' = [handed EXCEPT ![s] = @ + k]
        /\ n_evals' = [n_evals EXCEPT ![s] = CountEvals(@, k)]
    /\ pc' = [pc EXCEPT ![s] = "raised"]
    /\ call' = AfterRaise(s)
    /\ err' = "ObjectiveError"
    /\ UNCHANGED <<given, params, sched, cfg, algo, cb, force, eng_gen, popF,
                   res, outF, script, ret, results>>

\* The batches in which f returned nan for at least one candidate.
NonFiniteBatches(pop_size) ==
    {r \in UNION {[1..k -> Vals \cup {NaN}] : k \in 1..pop_size} :
        NaN \in Range(r)}

\* ProblemWrapper._evaluate (lines 85-87) on a batch for which f returned
\* nan: no line looks at the values, so the call goes as any other: the
\* counter grows, out["F"] is r or -r, and the engine gets the batch.
EvaluateNonFinite(s) ==
    /\ pc[s] = "eval"
    /\ \E r \in NonFiniteBatches(cfg[s].pop_size) :
        /\ handed' = [handed EXCEPT ![s] = @ + Len(r)]
        /\ n_evals' = [n_evals EXCEPT ![s] = CountEvals(@, Len(r))]
        /\ res' = [res EXCEPT ![s] = r]
        /\ outF' = [outF EXCEPT ![s] = OutF(s, r)]
    /\ pc' = [pc EXCEPT ![s] = "advance"]
    /\ UNCHANGED <<given, params, sched, call, err, cfg, algo, cb, force,
                   eng_gen, popF, script, ret, results>>

\* MonitorsAfterNotify of a minimize call that was not given the callback.
MonitorsAfterNotify_none(s, best) == cb

\* MonitorsAfterNotify with history a class attribute, one list shared by
\* every ConvergenceMonitor.
MonitorsAfterNotify_shared(s, best) ==
    [o \in Sides |->
        IF o = s THEN notify(cb[o], best)
        ELSE [cb[o] EXCEPT !.history = Append(@, best)]]

\* The monitors after side s's callback observed `best`: notify works on
\* self, the monitor constructed for this run (lines 99-100, 112).
MonitorsAfterNotify(s, best) == [cb EXCEPT ![s] = notify(cb[s], best)]

\* The engine ends the generation: the new population is chosen among the
\* old one and the evaluated batch (at most pop_size of them), then the
\* callback runs: ConvergenceMonitor.notify (lines 98-109).
Advance(s) ==
    /\ pc[s] = "advance"
    /\ \E P \in (SUBSET (popF[s] \cup Range(outF[s]))) \ {{}} :
        /\ Cardinality(P) <= cfg[s].pop_size
        /\ popF' = [popF EXCEPT ![s] = P]
        /\ cb' = MonitorsAfterNotify(s, ArrMin(P))
        /\ script' = [script EXCEPT ![s] =
                        IF sched = "par"
                        THEN Append(@, [r |-> res[s], P |-> P])
                        ELSE @]
    /\ force' = [force EXCEPT ![s] = force[s] \/ Converged(cb'[s])]
    /\ eng_gen' = [eng_gen EXCEPT ![s] = @ + 1]
    /\ res' = [res EXCEPT ![s] = <<>>]
    /\ outF' = [outF EXCEPT ![s] = <<>>]
    /\ pc' = [pc EXCEPT ![s] = "check"]
    /\ UNCHANGED <<given, params, sched, call, err, cfg, algo, n_evals,
                   handed, ret, results>>

\* HasNext of a minimize call that was not given the callback's signal.
HasNext_budget_only(s) == eng_gen[s] < cfg[s].n_gen

\* minimize's loop test (line 116): the run goes on while force_termination
\* is unset and the ('n_gen', n_gen) budget is not used up.
HasNext(s) == ~force[s] /\ eng_gen[s] < cfg[s].n_gen

NextGeneration(s) ==
    /\ pc[s] = "check"
    /\ HasNext(s)
    /\ pc' = [pc EXCEPT ![s] = "eval"]
    /\ UNCHANGED <<given, params, sched, call, err, cfg, algo, cb, n_evals,
                   force, eng_gen, popF, res, outF, handed, script, ret,
                   results>>

\* minimize returns.
Finish(s) ==
    /\ pc[s] = "check"
    /\ ~HasNext(s)
    /\ pc' = [pc EXCEPT ![s] = "finished"]
    /\ UNCHANGED <<given, params, sched, call, err, cfg, algo, cb, n_evals,
                   force, eng_gen, popF, res, outF, handed, script, ret,
                   results>>

\* What run_optimization returns (line 117): result (its F is the best of
\* the final population), callback.n_generations, problem.n_evals.
Returned(s) ==
    [F |-> ArrMin(popF[s]), n_gen |-> cb[s].n_generations, n_iter |-> n_evals[s]]

\* Line 117; the monitor, the problem and the engine of the run are dropped.
Return(s) ==
    /\ pc[s] = "finished"
    /\ call # "raised"
    /\ ret' = [ret EXCEPT ![s] = Returned(s)]
    /\ pc' = [pc EXCEPT ![s] = "returned"]
    /\ call' = AfterReturn(s)
    /\ cb' = [cb EXCEPT ![s] = NoMonitor]
    /\ popF' = [popF EXCEPT ![s] = {}]
    /\ force' = [force EXCEPT ![s] = FALSE]
    /\ eng_gen' = [eng_gen EXCEPT ![s] = 0]
    /\ n_evals' = [n_evals EXCEPT ![s] = 0]
    /\ UNCHANGED <<given, params, sched, err, cfg, algo, res, outF, handed,
                   script, results>>

\* The dictionary of lines 140-153; the decision vector x is not modelled.
ResultsDict ==
    [s \in Sides |->
        [f |-> IF s = "min" THEN ret[s].F ELSE Neg(ret[s].F),
         n_gen |-> ret[s].n_gen,
         n_iter |-> ret[s].n_iter]]

\* Lines 140-155.
Assemble ==
    /\ call = "assemble"
    /\ results' = ResultsDict
    /\ call' = "returned"
    /\ UNCHANGED <<given, params, sched, err, sideVars>>

Next ==
    \/ HandleArgs
    \/ \E s \in Sides : StartSideIndexError(s)
    \/ \E s \in Sides : StartSide(s)
    \/ \E s \in Sides : Evaluate(s)
    \/ \E s \in Sides : EvaluateRaises(s)
    \/ \E s \in Sides : Advance(s)
    \/ \E s \in Sides : NextGeneration(s)
    \/ \E s \in Sides : Finish(s)
    \/ \E s \in Sides : Return(s)
    \/ Assemble

Spec == Init /\ [][Next]_vars

\* The call runs on one thread that is never suspended for ever: whenever a
\* step is possible, a step is eventually taken.
FairSpec == Spec /\ WF_vars(Next)


(* ------------------- the two runs, interleaved ------------------------ *)
\* The calls explored with interleaved runs: budgets of two generations,
\* tolerances and windows that differ between the sides; and calls whose
\* population sizes, budgets and algorithms differ between the sides.
ParCalls ==
    {CallWith([n_gen |-> Scalar(2),
               tol |-> NdArray(<<t0, t1>>),
               n_gen_last |-> NdArray(<<w0, w1>>)]) :
        t0 \in {0, 1}, t1 \in {0, 1}, w0 \in {1, 2}, w1 \in {1, 2}}
    \cup {CallWith([n_gen |-> Scalar(1), pop_size |-> NdArray(<<2, 1>>)])}
    \cup {CallWith([n_gen |-> NdArray(<<b0, 3 - b0>>),
                    algorithm_type |-> NdArray(<<a0, a1>>)]) :
            b0 \in {1, 2}, a0 \in {"GA", "NSGA2"}, a1 \in {"GA", "NSGA2"}}

InitPar ==
    /\ given \in ParCalls
    /\ sched = "par"
    /\ InitRest

\* The steps of lines 123-155 with the two run_optimization calls free to
\* interleave; runs in which the objective raises are left out.
NextPar ==
    \/ HandleArgs
    \/ \E s \in Sides : StartSide(s)
    \/ \E s \in Sides : Evaluate(s)
    \/ \E s \in Sides : Advance(s)
    \/ \E s \in Sides : NextGeneration(s)
    \/ \E s \in Sides : Finish(s)
    \/ \E s \in Sides : Return(s)
    \/ Assemble

SpecPar == InitPar /\ [][NextPar]_vars

(* ------------- the call on an objective that may return nan ----------- *)
\* The calls explored: two candidates per generation, a budget of two
\* generations, a window of one or two.
NonFiniteCalls ==
    {CallWith([pop_size |-> Scalar(2), n_gen |-> Scalar(2),
               n_gen_last |-> Scalar(w)]) : w \in {1, 2}}

InitNonFinite ==
    /\ given \in NonFiniteCalls
    /\ sched = "seq"
    /\ InitRest

\* The steps of lines 123-155 when f may return nan or raise.
NextNonFinite ==
    \/ HandleArgs
    \/ \E s \in Sides : StartSide(s)
    \/ \E s \in Sides : Evaluate(s)
    \/ \E s \in Sides : EvaluateNonFinite(s)
    \/ \E s \in Sides : EvaluateRaises(s)
    \/ \E s \in Sides : Advance(s)
    \/ \E s \in Sides : NextGeneration(s)
    \/ \E s \in Sides : Finish(s)
    \/ \E s \in Sides : Return(s)
    \/ Assemble

SpecNonFinite == InitNonFinite /\ [][NextNonFinite]_vars

(* ------- a max run on f beside a min run on x -> -f(x) --------------- *)
\* Two runs of run_optimization side by side, with the same arguments and
\* the same engine choices: the max slot runs 'max' on an objective f, the
\* min slot runs 'min' on the objective that returns -f(x). The engine's
\* choices are made on positions: which candidates of the batch and which
\* ranks of the population survive.
NegCalls ==
    {CallWith([pop_size |-> Scalar(2), n_gen |-> Scalar(2),
               tol |-> Scalar(t), n_gen_last |-> Scalar(w)]) :
        t \in {0, 1}, w \in {1, 2}}

InitNeg ==
    /\ given \in NegCalls
    /\ sched = "neg"
    /\ InitRest

\* The batch result of the negated objective.
NegSeq(r) == [i \in 1..Len(r) |-> Neg(r[i])]

\* The k-th smallest element of S.
Ranked(S, k) == CHOOSE x \in S : Cardinality({y \in S : y < x}) = k - 1

\* The population that results from keeping the batch positions I and the
\* population ranks J.
Survivors(s, I, J) ==
    {outF[s][i] : i \in I \cap (1..Len(outF[s]))}
    \cup {Ranked(popF[s], k) : k \in J \cap (1..Cardinality(popF[s]))}

\* ProblemWrapper._evaluate (lines 85-87) in both runs on the same batch of
\* candidates: f returns r, the negated objective returns -r.
NegEvaluate ==
    /\ \A s \in Sides : pc[s] = "eval"
    /\ \E r \in Batches(cfg["max"].pop_size) :
        /\ res' = [s \in Sides |-> IF s = "max" THEN r ELSE NegSeq(r)]
        /\ outF' = [s \in Sides |->
                        OutF(s, IF s = "max" THEN r ELSE NegSeq(r))]
        /\ handed' = [s \in Sides |-> handed[s] + Len(r)]
        /\ n_evals' = [s \in Sides |-> CountEvals(n_evals[s], Len(r))]
    /\ pc' = [s \in Sides |-> "advance"]
    /\ UNCHANGED <<given, params, sched, call, err, cfg, algo, cb, force,
                   eng_gen, popF, script, ret, results>>

\* The engine ends the generation in both runs with the same choice of
\* survivors, then each run's callback observes its population (lines
\* 98-109).
NegAdvance ==
    /\ \A s \in Sides : pc[s] = "advance"
    /\ \E I \in SUBSET (1..Len(res["max"])), J \in SUBSET (1..MaxPop) :
        /\ \A s \in Sides :
            /\ Survivors(s, I, J) # {}
            /\ Cardinality(Survivors(s, I, J)) <= cfg[s].pop_size
        /\ popF' = [s \in Sides |-> Survivors(s, I, J)]
        /\ cb' = [s \in Sides |-> notify(cb[s], ArrMin(Survivors(s, I, J)))]
    /\ force' = [s \in Sides |-> force[s] \/ Converged(cb'[s])]
    /\ eng_gen' = [s \in Sides |-> eng_gen[s] + 1]
    /\ res' = [s \in Sides |-> <<>>]
    /\ outF' = [s \in Sides |-> <<>>]
    /\ pc' = [s \in Sides |-> "check"]
    /\ UNCHANGED <<given, params, sched, call, err, cfg, algo, n_evals,
                   handed, script, ret, results>>

NextNeg ==
    \/ HandleArgs
    \/ \E s \in Sides : StartSide(s)
    \/ NegEvaluate
    \/ NegAdvance
    \/ \E s \in Sides : NextGeneration(s)
    \/ \E s \in Sides : Finish(s)
    \/ \E s \in Sides : Return(s)
    \/ Assemble

SpecNeg == InitNeg /\ [][NextNeg]_vars

(* ============================== claims ================================ *)
\* A side whose run_optimization is between construction and return.
Live(s) == pc[s] \in {"eval", "advance", "check", "finished"}

\* Generation g ends a run of w consecutive values of h within t of each
\* other.
RunEndsAt(h, w, t, g) ==
    /\ w <= g
    /\ g <= Len(h)
    /\ \A i, j \in (g - w + 1)..g : LessEq(Minus(h[i], h[j]), t)

\* The generation ending the first such run of h, or 0 when h has none.
FirstRunEnd(h, w, t) ==
    IF \E g \in 1..Len(h) : RunEndsAt(h, w, t, g)
    THEN CHOOSE g \in 1..Len(h) :
            /\ RunEndsAt(h, w, t, g)
            /\ \A k \in 1..(g - 1) : ~RunEndsAt(h, w, t, k)
    ELSE 0

FirstRunOf(s) == FirstRunEnd(cb[s].history, cb[s].n_last, cb[s].tol)

\* C1: for tolerance t >= 0 and window w >= 1, force_termination is set at
\* generation g exactly when g ends the first run of w consecutive history
\* values whose max - min is <= t: it is set in every state in which the
\* history holds such a run, in no state in which it holds none, and when
\* it is set the first run ends at the generation just observed.
C1_ForcedAtFirstRun ==
    \A s \in Sides : Live(s) =>
        /\ force[s] <=> FirstRunOf(s) # 0
        /\ force[s] => /\ FirstRunOf(s) = Len(cb[s].history)
                       /\ FirstRunOf(s) = cb[s].n_generations

\* C1 witness: the monitor signalled at generation 3 with a window of 2,
\* the window ending at generation 2 having been too wide.
C1_Witness ==
    \E s \in Sides :
        /\ pc[s] = "check"
        /\ force[s]
        /\ cb[s].n_last = 2
        /\ cb[s].tol = 1
        /\ Len(cb[s].history) = 3
        /\ cb[s].history[1] - cb[s].history[2] = 2

\* The generation at which a finished run must have stopped: the end of the
\* first run within tolerance, or the budget when there is none.
StopGeneration(s) ==
    IF FirstRunOf(s) # 0 THEN FirstRunOf(s) ELSE cfg[s].n_gen

\* Steps side s can still take, at most: three per generation left, and
\* the steps around them.
SideRank(s) ==
    CASE pc[s] = "idle" -> 3 * MaxGen + 5
      [] pc[s] = "eval" -> 3 * (cfg[s].n_gen - eng_gen[s]) + 2
      [] pc[s] = "advance" -> 3 * (cfg[s].n_gen - eng_gen[s]) + 1
      [] pc[s] = "check" -> 3 * (cfg[s].n_gen - eng_gen[s]) + 3
      [] pc[s] = "finished" -> 1
      [] OTHER -> 0

\* Steps the call can still take, at most.
CallRank ==
    SideRank("min") + SideRank("max")
    + (CASE call = "handle_args" -> 3
         [] call \in {"run_min", "run_max"} -> 2
         [] call = "assemble" -> 1
         [] OTHER -> 0)

\* C2: every run_optimization terminates, at the earlier of the generation
\* of the monitor's signal and the generation budget.  Every step lowers
\* CallRank, which is never negative, and a step is possible until the call
\* has returned or raised: so every run ends.  n_gen never exceeds the
\* budget; a finished run reports the end of the first run within tolerance
\* or, when there is none, the budget; and no step taken after a generation
\* was observed raises an error: the run goes on or returns normally.
C2_StopsAtEarlier ==
    /\ [][CallRank' < CallRank]_vars
    /\ [](/\ CallRank >= 0
          /\ call \notin {"returned", "raised"} => ENABLED Next)
    /\ [](\A s \in Sides : Live(s) =>
            /\ cb[s].n_generations <= cfg[s].n_gen
            /\ pc[s] = "finished" =>
                /\ Returned(s).n_gen = StopGeneration(s)
                /\ Returned(s).n_gen <= cfg[s].n_gen)
    /\ [][\A s \in Sides : pc[s] \in {"check", "finished"} =>
            /\ pc'[s] \in {"check", "eval", "finished", "returned"}
            /\ err' = None]_vars

\* C2 witness: a run returned at its budget of 3 generations, and another
\* returned before its budget.
C2_Witness ==
    /\ call = "returned"
    /\ \E s \in Sides : cfg[s].n_gen = 3 /\ ret[s].n_gen = 3
    /\ \E s \in Sides : ret[s].n_gen < cfg[s].n_gen

\* C3: the evaluation counter of a side is the number of candidates the
\* engine handed to that side, batch by batch, and that is the n_iter the
\* side returns and the call reports for it.
C3_EvaluationAccounting ==
    \A s \in Sides :
        /\ pc[s] \in {"eval", "advance", "check", "finished", "raised"}
                => n_evals[s] = handed[s]
        /\ pc[s] = "finished" => Returned(s).n_iter = handed[s]
        /\ pc[s] = "returned" => ret[s].n_iter = handed[s]
        /\ call = "returned" => results[s].n_iter = handed[s]

\* C3 witness: a call returned whose sides evaluated different numbers of
\* candidates, the min side more than one per generation.
C3_Witness ==
    /\ call = "returned"
    /\ results["min"].n_iter # results["max"].n_iter
    /\ results["min"].n_iter > results["min"].n_gen
    /\ results["min"].n_gen = 2

\* C4: on the max side every value handed to the engine is the negation of
\* the objective's value and the reported f is the negation of the value
\* the engine minimized; on the min side both are unmodified; so the
\* reported f of either side is in the objective's own range.
C4_NegationBothWays ==
    /\ \A s \in Sides : pc[s] = "advance" =>
        /\ Len(outF[s]) = Len(res[s])
        /\ \A i \in 1..Len(res[s]) :
            /\ s = "max" => outF[s][i] = 0 - res[s][i]
            /\ s = "min" => outF[s][i] = res[s][i]
    /\ call = "returned" =>
        /\ results["max"].f = 0 - ret["max"].F
        /\ results["min"].f = ret["min"].F
        /\ \A s \in Sides : results[s].f \in Vals

\* C4 witness: a call returned a max-side value that negation changes.
C4_Witness ==
    /\ call = "returned"
    /\ results["max"].f = 2
    /\ ret["max"].F = -2
    /\ results["min"].f = 1

\* The value the caller passed for parameter p when it is a scalar s or the
\* pair [s, s]; the set is empty for any other argument.
Broadcast(p) ==
    {v \in Domain(p) : given[p] \in {Scalar(v), NdArray(<<v, v>>)}}

\* C5: a scalar s and the pair [s, s] (an ndarray, as line 21-27 document)
\* are equivalent: after handle_arg the parameter is the same array [s, s]
\* in both calls, and every side that starts receives s for it.
C5_ScalarIsPair ==
    \A p \in Params : \A v \in Broadcast(p) :
        call # "handle_args" =>
            /\ params[p] = NdArray(<<v, v>>)
            /\ handle_arg(Scalar(v)) = handle_arg(NdArray(<<v, v>>))
            /\ \A s \in Sides : pc[s] \notin {"idle", "raised"} => cfg[s][p] = v

\* C5 witness: both sides ran to the end of a call given the scalar
\* tolerance 1, and of a call given the pair [1, 1].
C5_Witness ==
    /\ call = "returned"
    /\ given["tol"] = Scalar(1)
    /\ cfg["min"].tol = 1
    /\ cfg["max"].tol = 1

\* C6: a parameter that is neither a scalar nor of length 2 makes the call
\* fail before any search starts: no side starts, nothing is evaluated, and
\* the call does not return a result.
C6_BadShapeRejected ==
    (\E p \in Params : given[p].nd /\ Len(given[p].elems) # 2) =>
        /\ \A s \in Sides : pc[s] \in {"idle", "raised"} /\ handed[s] = 0
        /\ call # "returned"

\* C7: a side whose algorithm name is neither "GA" nor "NSGA2" runs no
\* search: no algorithm is constructed for it and nothing is evaluated.
C7_UnknownAlgorithmRejected ==
    \A s \in Sides :
        (pc[s] # "idle" /\ cfg[s].algorithm_type \notin {"GA", "NSGA2"}) =>
            /\ algo[s] = None
            /\ handed[s] = 0

\* Float equality: nan equals nothing, itself included.
FloatEq(a, b) == a # NaN /\ a = b

\* The generation ending the first run of w equal values of h, or 0.
FirstFlatEnd(h, w) ==
    IF \E g \in w..Len(h) : \A i \in (g - w + 1)..g : FloatEq(h[i], h[g])
    THEN CHOOSE g \in w..Len(h) :
            /\ \A i \in (g - w + 1)..g : FloatEq(h[i], h[g])
            /\ \A k \in w..(g - 1) :
                    \E i \in (k - w + 1)..k : ~FloatEq(h[i], h[k])
    ELSE 0

\* C8 as stated: with tolerance 0 a finished side has run its full budget.
C8_ZeroTolNeverEarly ==
    \A s \in Sides :
        (pc[s] = "finished" /\ cfg[s].tol = 0) =>
            cb[s].n_generations = cfg[s].n_gen

\* C8 amended: with tolerance 0 a side stops at the first generation that
\* completes window-length equal best values, and at its budget when there
\* is none; so it runs its full budget whenever the window exceeds the
\* budget.
C8_ZeroTolStopsOnFlatWindow ==
    \A s \in Sides :
        (pc[s] = "finished" /\ cfg[s].tol = 0) =>
            /\ cb[s].n_generations =
                IF FirstFlatEnd(cb[s].history, cfg[s].n_gen_last) # 0
                THEN FirstFlatEnd(cb[s].history, cfg[s].n_gen_last)
                ELSE cfg[s].n_gen
            /\ cfg[s].n_gen_last > cfg[s].n_gen =>
                cb[s].n_generations = cfg[s].n_gen

\* C8 witness: in a call with tolerance 0 and a budget of 3 the min side,
\* with a window of 2, returned after 2 generations, and the max side, with
\* a window of 4, ran all 3 generations though its best value never changed.
C8_Witness ==
    /\ \A s \in Sides : cfg[s].tol = 0 /\ cfg[s].n_gen = 3
    /\ cfg["min"].n_gen_last = 2
    /\ pc["min"] = "returned"
    /\ ret["min"].n_gen = 2
    /\ cfg["max"].n_gen_last = 4
    /\ pc["max"] = "finished"
    /\ cb["max"].history = <<-1, -1, -1>>

\* One generation of a run on its own: the batch e.r is counted, the
\* monitor observes the best of the population e.P.
AloneStep(st, e) ==
    [cb |-> notify(st.cb, ArrMin(e.P)),
     n_evals |-> CountEvals(st.n_evals, Len(e.r)),
     force |-> st.force \/ Converged(notify(st.cb, ArrMin(e.P)))]

\* A run with arguments c on its own, fed the engine choices q from state
\* st: it takes them one by one until minimize stops.
RECURSIVE Alone(_, _, _)
Alone(c, q, st) ==
    IF q = <<>> \/ st.force \/ st.cb.n_generations >= c.n_gen THEN st
    ELSE Alone(c, Tail(q), AloneStep(st, Head(q)))

AloneStart(c) ==
    [cb |-> NewMonitor(c.tol, c.n_gen_last), n_evals |-> 0, force |-> FALSE]

AloneOf(s) == Alone(cfg[s], script[s], AloneStart(cfg[s]))

\* C9: in every interleaving of the two sides' steps, a side's history,
\* generation counter, evaluation counter and stop signal after each of its
\* generations are those of a run on its own given the same engine choices,
\* the run stops where the run on its own stops, and it returns the n_gen
\* and n_iter of the run on its own.
C9_SidesIndependent ==
    \A s \in Sides :
        /\ pc[s] \in {"check", "finished"} =>
            /\ AloneOf(s).cb = cb[s]
            /\ AloneOf(s).n_evals = n_evals[s]
            /\ AloneOf(s).force = force[s]
            /\ Len(script[s]) = cb[s].n_generations
        /\ pc[s] = "finished" =>
            \/ AloneOf(s).force
            \/ AloneOf(s).cb.n_generations >= cfg[s].n_gen
        /\ pc[s] = "returned" =>
            /\ ret[s].n_gen = AloneOf(s).cb.n_generations
            /\ ret[s].n_iter = AloneOf(s).n_evals

\* C9 witness: the max side finished its two generations while the min
\* side, started first, was still in its first generation.
C9_Witness ==
    /\ sched = "par"
    /\ pc["max"] = "finished"
    /\ Len(cb["max"].history) = 2
    /\ pc["min"] = "advance"
    /\ Len(cb["min"].history) = 0

\* C10: a failure in either run aborts the call: once an exception was
\* raised the call is over and no dictionary is ever returned, and a
\* returned dictionary holds both sides, each from a run that returned.
C10_NoPartialResult ==
    /\ err # None => call = "raised" /\ results = NoResults
    /\ (\E s \in Sides : pc[s] = "raised") => err # None
    /\ DOMAIN results \in {{}, Sides}
    /\ results # NoResults =>
        /\ call = "returned"
        /\ \A s \in Sides : pc[s] = "returned"

\* C10 witness: the max side failed after the min side had returned.
C10_Witness ==
    /\ pc["min"] = "returned"
    /\ ret["min"].n_gen > 0
    /\ pc["max"] = "raised"
    /\ err = "ObjectiveError"
    /\ results = NoResults

\* C14: within one run the history is append-only and in step with the
\* generation counter: a fresh monitor has an empty history and a counter
\* of 0, every step of a live run either leaves the monitor alone or
\* appends exactly one value and adds one to n_generations (tol and n_last
\* untouched, earlier entries kept), and len(history) = n_generations in
\* every state.
C14_HistoryAppendOnly ==
    /\ [](\A s \in Sides : Len(cb[s].history) = cb[s].n_generations)
    /\ [][\A s \in Sides :
            /\ (pc[s] = "idle" /\ Live(s)') =>
                    cb'[s].history = <<>> /\ cb'[s].n_generations = 0
            /\ (Live(s) /\ Live(s)') =>
                    \/ cb'[s] = cb[s]
                    \/ /\ pc[s] = "advance"
                       /\ Len(cb'[s].history) = Len(cb[s].history) + 1
                       /\ SubSeq(cb'[s].history, 1, Len(cb[s].history))
                            = cb[s].history
                       /\ cb'[s].n_generations = cb[s].n_generations + 1
                       /\ cb'[s].tol = cb[s].tol
                       /\ cb'[s].n_last = cb[s].n_last]_vars

\* C14 witness: a live monitor that observed three generations with three
\* different values.
C14_Witness ==
    /\ pc["min"] = "check"
    /\ cb["min"].n_generations = 3
    /\ cb["min"].history = <<2, 0, 1>>

\* C15: the stop signal is terminal for its run. Once force_termination is
\* set (by the notify of generation g), no step of that side starts or
\* evaluates another generation, calls notify again or counts another
\* evaluation: the side only goes from the loop test to the end of
\* minimize and to the return, and the n_gen it returns is g, the
\* generation whose notify set the signal.
C15_ConvergedIsTerminal ==
    /\ [](\A s \in Sides : force[s] =>
            /\ pc[s] \in {"check", "finished"}
            /\ cb[s].n_generations = Len(cb[s].history)
            /\ cb[s].n_generations = eng_gen[s])
    /\ [][\A s \in Sides :
            /\ (~force[s] /\ force'[s]) =>
                    /\ pc[s] = "advance"
                    /\ cb'[s].n_generations = cb[s].n_generations + 1
            /\ force[s] =>
                    /\ handed'[s] = handed[s]
                    /\ pc'[s] \in {"check", "finished", "returned"}
                    /\ pc'[s] # "returned" =>
                            /\ force'[s]
                            /\ cb'[s] = cb[s]
                            /\ n_evals'[s] = n_evals[s]
                            /\ eng_gen'[s] = eng_gen[s]
                    /\ pc'[s] = "returned" =>
                            /\ ret'[s].n_gen = cb[s].n_generations
                            /\ ret'[s].n_iter = n_evals[s]]_vars

\* C15 witness: the min side returned after its signal was set in
\* generation 2 of a budget of 3, having counted two evaluations, and the
\* max side has started.
C15_Witness ==
    /\ pc["min"] = "returned"
    /\ cfg["min"].n_gen = 3
    /\ cfg["min"].n_gen_last = 2
    /\ ret["min"].n_gen = 2
    /\ ret["min"].n_iter = 2
    /\ handed["min"] = 2
    /\ pc["max"] = "eval"

\* C16: a window longer than the budget never stops a run. When n_gen_last
\* exceeds n_gen, the history is shorter than the window in every state, so
\* the length test of line 103 fails at every notify and the spread is
\* never computed; force_termination is never set; and when minimize ends
\* the run has done exactly n_gen generations, which is what it returns.
C16_WindowBeyondBudget ==
    \A s \in Sides :
        (Live(s) /\ cfg[s].n_gen_last > cfg[s].n_gen) =>
            /\ Len(cb[s].history) < cb[s].n_last
            /\ cb[s].history # <<>> => ~Converged(cb[s])
            /\ ~force[s]
            /\ pc[s] = "finished" =>
                    /\ cb[s].n_generations = cfg[s].n_gen
                    /\ Returned(s).n_gen = cfg[s].n_gen

\* C16 witness: with a window of 3 and a budget of 2 the max side ended
\* its run on a flat history, two generations long, that a tolerance of 1
\* would accept.
C16_Witness ==
    /\ pc["max"] = "finished"
    /\ cfg["max"].n_gen_last = 3
    /\ cfg["max"].n_gen = 2
    /\ cfg["max"].tol = 1
    /\ cb["max"].history = <<-2, -2>>
    /\ ~force["max"]

\* C17: within one side the generations are strictly ordered, and each is
\* evaluated, then observed, then decided on. A batch is evaluated only from
\* the start of a generation, when the monitor has observed every earlier
\* generation (n_generations = generations completed); notify runs only on
\* a completely evaluated batch and is the only step that lengthens the
\* history, by the one generation just evaluated; the stop-or-continue
\* decision is taken only after that notify, and generation k+1 starts only
\* from a decision to continue.
C17_EvaluateNotifyDecide ==
    /\ [](\A s \in Sides :
            /\ pc[s] = "eval" =>
                    /\ res[s] = <<>> /\ outF[s] = <<>>
                    /\ cb[s].n_generations = eng_gen[s]
            /\ pc[s] = "advance" =>
                    /\ Len(res[s]) >= 1 /\ Len(outF[s]) = Len(res[s])
                    /\ cb[s].n_generations = eng_gen[s]
            /\ pc[s] \in {"check", "finished"} =>
                    /\ res[s] = <<>> /\ outF[s] = <<>>
                    /\ eng_gen[s] >= 1
                    /\ cb[s].n_generations = eng_gen[s])
    /\ [][\A s \in Sides :
            /\ pc[s] = "eval" => pc'[s] \in {"eval", "advance", "raised"}
            /\ pc[s] = "advance" => pc'[s] \in {"advance", "check"}
            /\ pc[s] = "check" => pc'[s] \in {"check", "eval", "finished"}
            /\ (Live(s) /\ n_evals'[s] > n_evals[s]) => pc[s] = "eval"
            /\ (Live(s) /\ Live(s)' /\ cb'[s] # cb[s]) =>
                    /\ pc[s] = "advance" /\ pc'[s] = "check"
                    /\ eng_gen'[s] = eng_gen[s] + 1
                    /\ Len(cb'[s].history) = eng_gen'[s]
            /\ (pc[s] = "check" /\ pc'[s] = "eval") =>
                    force[s] = FALSE /\ eng_gen[s] < cfg[s].n_gen
            /\ (pc[s] = "check" /\ pc'[s] = "finished") =>
                    force[s] \/ eng_gen[s] >= cfg[s].n_gen]_vars

\* C17 witness: the third batch of the min side has been evaluated and not
\* yet observed: two generations are in the history.
C17_Witness ==
    /\ pc["min"] = "advance"
    /\ eng_gen["min"] = 2
    /\ Len(res["min"]) = 1
    /\ handed["min"] = 3
    /\ cb["min"].history = <<1, 2>>

\* The smaller of two integers.
MinOf(a, b) == IF a <= b THEN a ELSE b

\* C19: no run stops before min(n_gen_last, n_gen) generations: a run that
\* ended, and the n_gen it returns, has at least that many; the stop signal
\* is never set in a history shorter than the window; and with a window of
\* 1 and a tolerance >= 0 the signal is set by the first notify, so the run
\* ends after exactly one generation.
C19_NoStopBeforeWindow ==
    \A s \in Sides :
        /\ (Live(s) /\ force[s]) => cb[s].n_generations >= cfg[s].n_gen_last
        /\ pc[s] = "finished" =>
                /\ cb[s].n_generations
                        >= MinOf(cfg[s].n_gen_last, cfg[s].n_gen)
                /\ cfg[s].n_gen_last = 1 =>
                        /\ force[s]
                        /\ cb[s].n_generations = 1
                        /\ Returned(s).n_gen = 1
        /\ pc[s] = "returned" =>
                /\ ret[s].n_gen >= MinOf(cfg[s].n_gen_last, cfg[s].n_gen)
                /\ cfg[s].n_gen_last = 1 => ret[s].n_gen = 1

\* C19 on finite values: the min side returned after the one generation
\* of its window of 1, budget 3, tolerance 0; the max side of the same
\* call ended on the same terms.
C19_FiniteCase ==
    /\ pc["min"] = "returned"
    /\ ret["min"].n_gen = 1
    /\ pc["max"] = "finished"
    /\ cfg["max"].n_gen_last = 1
    /\ cfg["max"].n_gen = 3
    /\ cfg["max"].tol = 0
    /\ cb["max"].n_generations = 1

\* Element 0 (min) or element 1 (max) of argument p as the caller gave it;
\* a scalar stands for both elements.
OwnElem(p, s) ==
    IF given[p].nd THEN given[p].elems[IF s = "min" THEN 1 ELSE 2]
    ELSE given[p].elems[1]

\* The arguments of side s read off the caller's arguments, element by
\* element; the other side's elements do not occur in it.
OwnCfg(s) == [p \in Params |-> OwnElem(p, s)]

\* The run of side s replayed from its own elements and the engine's
\* choices alone.
OwnRun(s) == Alone(OwnCfg(s), script[s], AloneStart(OwnCfg(s)))

\* C18: each side is configured from its own element of every paired
\* argument and from nothing else: run_optimization receives element 0
\* of pop_size, n_gen, tol, n_gen_last and algorithm_type on the min side
\* and element 1 on the max side; the monitor, the algorithm, the batch
\* sizes and the budget are those elements; and the side's history,
\* n_gen and n_iter are a function of its own elements and the engine's
\* choices, so changing the other side's elements leaves them unchanged.
C18_OwnElementOnly ==
    \A s \in Sides :
        /\ pc[s] # "idle" =>
                /\ cfg[s] = OwnCfg(s)
                /\ algo[s] = SelectAlgorithm(OwnElem("algorithm_type", s))
                /\ \A i \in 1..Len(script[s]) :
                        Len(script[s][i].r) <= OwnElem("pop_size", s)
                /\ Len(script[s]) <= OwnElem("n_gen", s)
        /\ Live(s) =>
                /\ cb[s].tol = OwnElem("tol", s)
                /\ cb[s].n_last = OwnElem("n_gen_last", s)
        /\ pc[s] \in {"check", "finished"} =>
                /\ OwnRun(s).cb = cb[s]
                /\ OwnRun(s).n_evals = n_evals[s]
                /\ OwnRun(s).force = force[s]
        /\ pc[s] = "finished" =>
                \/ OwnRun(s).force
                \/ OwnRun(s).cb.n_generations >= OwnElem("n_gen", s)
        /\ pc[s] = "returned" =>
                /\ ret[s].n_gen = OwnRun(s).cb.n_generations
                /\ ret[s].n_iter = OwnRun(s).n_evals

\* C18 witness: a call with budgets (1, 2) and algorithms (GA, NSGA2): the
\* min side returned after its one generation on GA, the max side ended
\* after two generations on NSGA2.
C18_Witness ==
    /\ given["n_gen"] = NdArray(<<1, 2>>)
    /\ given["algorithm_type"] = NdArray(<<"GA", "NSGA2">>)
    /\ pc["min"] = "returned"
    /\ ret["min"].n_gen = 1
    /\ algo["min"] = "GA"
    /\ pc["max"] = "finished"
    /\ cb["max"].n_generations = 2
    /\ algo["max"] = "NSGA2"

\* C13: a failing objective is fatal to the call at the generation it
\* fails in. When f raises, the call ends with the exception and returns
\* nothing; when f returns a non-finite value, the evaluation does not
\* complete as a normal one either: no batch holding nan is handed on to
\* the engine, no nan enters a history, and no returned dictionary reports
\* nan as a best value.
C13_ObjectiveFailureIsFatal ==
    /\ err = "ObjectiveError" => call = "raised" /\ results = NoResults
    /\ \A s \in Sides :
        /\ pc[s] = "raised" => call = "raised"
        /\ pc[s] = "advance" => NaN \notin Range(res[s])
        /\ NaN \notin Range(cb[s].history)
        /\ NaN \notin popF[s]
    /\ results # NoResults => \A s \in Sides : results[s].f # NaN

\* The call returned a dictionary although f returned nan on both sides:
\* both runs used their whole budget and both best values are nan.
C13_NormalResultOnNaN ==
    /\ call = "returned"
    /\ err = None
    /\ \A s \in Sides :
        /\ results[s].f = NaN
        /\ results[s].n_gen = 2

\* C11: a max run on f is, step for step, a min run on x -> -f(x). With
\* the same arguments and the same engine choices, the two runs hand the
\* engine the same out["F"] for every batch, and after every generation
\* they have the same population, history, generation counter, evaluation
\* counter and stop signal; they stop together and return the same n_gen
\* and n_iter; and the reported max-side value, negated, is the value the
\* min run on -f reports.
C11_MaxIsMinOfNegation ==
    /\ (\A s \in Sides : pc[s] = "advance") =>
            /\ res["min"] = NegSeq(res["max"])
            /\ outF["max"] = outF["min"]
            /\ n_evals["max"] = n_evals["min"]
    /\ (\A s \in Sides : pc[s] = "check") =>
            /\ popF["max"] = popF["min"]
            /\ cb["max"] = cb["min"]
            /\ n_evals["max"] = n_evals["min"]
            /\ force["max"] = force["min"]
            /\ HasNext("max") = HasNext("min")
    /\ (\A s \in Sides : pc[s] \in {"finished", "returned"}) =>
            /\ (IF pc["max"] = "returned" THEN ret["max"] ELSE Returned("max"))
                = (IF pc["min"] = "returned" THEN ret["min"] ELSE Returned("min"))
    /\ results # NoResults =>
            /\ Neg(results["max"].f) = results["min"].f
            /\ results["max"].n_gen = results["min"].n_gen
            /\ results["max"].n_iter = results["min"].n_iter

\* C11 witness: both runs returned after two generations and three
\* evaluations; f's maximum found is 2, reported as 2 by the max run and
\* as -2 by the min run on -f.
C11_Witness ==
    /\ sched = "neg"
    /\ results # NoResults
    /\ results["max"].f = 2
    /\ results["min"].f = -2
    /\ results["max"].n_gen = 2
    /\ results["max"].n_iter = 3

=============================================================================
